---- MODULE Spec2Model ----
(***************************************************************************)
(* Model of torchmultimodal/modules/losses/contrastive_loss_with_          *)
(* temperature.py: the embedding gather, the contrastive loss and the      *)
(* ContrastiveLossWithTemperature module.                                  *)
(*                                                                         *)
(* Real numbers are fixed-point integers with FP units per 1.0, so the     *)
(* clamp bound 4.6052 is the integer 46052.  Embedding entries are whole   *)
(* numbers.  A tensor is a record [rows, grad]: grad[i] names the leaf     *)
(* tensor that row i back-propagates to, or NoGrad.                        *)
(***************************************************************************)
EXTENDS Integers, Sequences, FiniteSets, TLC

\* ---------------------------------------------------------------- bounds
WorldSize == 2
LocalBatch == 3
MaxSteps == 1
MaxHandles == 3

\* ------------------------------------------------------------- constants
FP == 10000
CLAMP_MIN == 0
CLAMP_MAX == 46052
DEFAULT_LOGIT_SCALE_VALUE == 26593
NaN == -1

Ranks == 0 .. (WorldSize - 1)

\* ------------------------------------------------------- fixed-point math
\* the arithmetic is written as functions of integers so that every
\* argument is evaluated once
MulFP[a \in Int, b \in Int] ==
    (a \div FP) * b + (a % FP) * (b \div FP) + ((a % FP) * (b % FP)) \div FP

\* sum of the Taylor series of exp from the given term on
ExpSeries[x \in Int, term \in Int, n \in Nat, acc \in Int] ==
    IF term = 0 \/ n > 12 THEN acc
    ELSE ExpSeries[x, (term * x) \div (n * FP), n + 1, acc + term]

\* exp(2h + b) from exp(h), for b = 0 or b = 1 unit
ExpDouble[half \in Int, b \in Int] ==
    IF b = 0 THEN MulFP[half, half] ELSE MulFP[MulFP[half, half], FP + 1]

ExpFP[x \in Int] ==
    IF x < -120000 THEN 0
    ELSE IF x > FP \/ x < -FP
         THEN ExpDouble[ExpFP[x \div 2], x % 2]
         ELSE ExpSeries[x, FP, 1, 0]

\* torch.exp
Exp(x) == ExpFP[x]

\* sum of the series of 2*atanh from the given power on
LnSeries[z2 \in Int, pow \in Int, k \in Nat, acc \in Int] ==
    IF pow = 0 \/ k > 41 THEN acc
    ELSE LnSeries[z2, MulFP[pow, z2], k + 2, acc + (pow \div k)]

LnFP[y \in Int] ==
    LET z == ((y - FP) * FP) \div (y + FP)
    IN  2 * LnSeries[MulFP[z, z], z, 1, 0]

\* natural logarithm
Ln(y) == LnFP[y]

SumSeq[s \in Seq(Int)] == IF s = <<>> THEN 0 ELSE Head(s) + SumSeq[Tail(s)]

Max2[a \in Int, b \in Int] == IF a > b THEN a ELSE b

MaxSeq[s \in Seq(Int)] ==
    IF Len(s) = 1 THEN s[1] ELSE Max2[Head(s), MaxSeq[Tail(s)]]

\* ---------------------------------------------------------------- tensors
NoGrad == [w |-> -1, t |-> "none"]
Leaf(r, kind) == [w |-> r, t |-> kind]

\* a leaf tensor of worker r: every row back-propagates to the leaf itself
LocalTensor(rows, r, kind) ==
    [rows |-> rows, grad |-> [i \in 1 .. Len(rows) |-> Leaf(r, kind)]]

ZerosLike(rows) ==
    [rows |-> [i \in 1 .. Len(rows) |-> [d \in 1 .. Len(rows[i]) |-> 0]],
     grad |-> [i \in 1 .. Len(rows) |-> NoGrad]]

\* torch.cat of a list of tensors along the rows
Cat(pieces) ==
    LET upto[k \in 0 .. Len(pieces)] ==
            IF k = 0 THEN [rows |-> <<>>, grad |-> <<>>]
            ELSE [rows |-> upto[k - 1].rows \o pieces[k].rows,
                  grad |-> upto[k - 1].grad \o pieces[k].grad]
    IN  upto[Len(pieces)]

Arange(n) == [i \in 1 .. n |-> i - 1]

Dot(u, v) == SumSeq[[d \in 1 .. Len(u) |-> u[d] * v[d]]]

ScaledSimilarityFP[a \in Seq(Seq(Int)), g \in Seq(Seq(Int)), temperature \in Int] ==
    [i \in 1 .. Len(a) |-> [j \in 1 .. Len(g) |-> Dot(a[i], g[j]) * temperature]]

\* torch.matmul(a, g.transpose(0, 1)) * temperature
ScaledSimilarity(a, g, temperature) == ScaledSimilarityFP[a, g, temperature]

\* s[bits]: the entries of s at the True positions of a boolean mask
BoolIndex(s, bits) ==
    LET kept[i \in 0 .. Len(s)] ==
            IF i = 0 THEN <<>>
            ELSE IF bits[i] THEN Append(kept[i - 1], s[i]) ELSE kept[i - 1]
    IN  kept[Len(s)]

\* log of the sum of the exponentials of a row whose largest entry is m
LogSumExp[row \in Seq(Int), m \in Int] ==
    Ln(SumSeq[[j \in 1 .. Len(row) |-> Exp(row[j] - m)]]) + m

\* F.cross_entropy with mean reduction; no rows gives nan
RowLoss[row \in Seq(Int), label \in Nat] ==
    LogSumExp[row, MaxSeq[row]] - row[label + 1]

CrossEntropyFP[logits \in Seq(Seq(Int)), labels \in Seq(Nat)] ==
    IF Len(logits) = 0 THEN NaN
    ELSE SumSeq[[i \in 1 .. Len(logits) |-> RowLoss[logits[i], labels[i]]]]
            \div Len(logits)

CrossEntropy(logits, labels) == CrossEntropyFP[logits, labels]

\* the halving is forgotten
AverageLossSum(loss_i, loss_t) ==
    IF loss_i = NaN \/ loss_t = NaN THEN NaN ELSE loss_i + loss_t

AverageLoss(loss_i, loss_t) ==
    IF loss_i = NaN \/ loss_t = NaN THEN NaN ELSE (loss_i + loss_t) \div 2

\* ----------------------------------------------------------------- gather
\* what torch.distributed.nn.functional.all_gather returns for the
\* delivered per-rank values: every piece keeps a gradient path to the
\* worker that contributed it
AllGatherWithBackprop(delivered, kind) ==
    [k \in 1 .. Len(delivered) |-> LocalTensor(delivered[k], k - 1, kind)]

\* the output list handed to torch.distributed.all_gather
ZerosList(rows, world_size) == [k \in 1 .. world_size |-> ZerosLike(rows)]

\* the collective is never run: the output list stays zero
AllGatherNoBackpropUnfilled(buffers, delivered) == buffers

\* torch.distributed.all_gather copies the delivered values into the
\* tensors of the output list, which stay detached
AllGatherNoBackprop(buffers, delivered) ==
    [k \in 1 .. Len(buffers) |-> [buffers[k] EXCEPT !.rows = delivered[k]]]

\* the rank offset is forgotten
DistLabelsNoRank(local_batch_size, rank) == Arange(local_batch_size)

DistLabels(local_batch_size, rank) ==
    [i \in 1 .. local_batch_size |-> local_batch_size * rank + Arange(local_batch_size)[i]]

\* the single-worker branch returns its two tensors in the wrong order
GatherSwappedReturn(img, txt, bp, env) ==
    [img_all |-> LocalTensor(txt, env.rank, "txt"),
     txt_all |-> LocalTensor(img, env.rank, "img"),
     labels |-> Arange(Len(img)),
     collectives |-> <<>>]

\* env = [initialized, rank, world_size, img_all, txt_all]; img_all and
\* txt_all are what the two collectives deliver, in rank order
GatherEmbeddingsAndLabels(img, txt, bp, env) ==
    IF ~env.initialized
    THEN [img_all |-> LocalTensor(img, env.rank, "img"),
          txt_all |-> LocalTensor(txt, env.rank, "txt"),
          labels |-> Arange(Len(img)),
          collectives |-> <<>>]
    ELSE LET img_list == IF bp THEN AllGatherWithBackprop(env.img_all, "img")
                         ELSE AllGatherNoBackprop(ZerosList(img, env.world_size), env.img_all)
             txt_list == IF bp THEN AllGatherWithBackprop(env.txt_all, "txt")
                         ELSE AllGatherNoBackprop(ZerosList(txt, env.world_size), env.txt_all)
         IN  [img_all |-> Cat(img_list),
              txt_all |-> Cat(txt_list),
              labels |-> DistLabels(Len(img), env.rank),
              collectives |-> <<"img", "txt">>]

\* ------------------------------------------------------------------- loss
\* the embedding leaf tensors the graph of the returned loss reaches: the
\* local embeddings through the left matmul factors and the gathered pieces
\* through the right ones, whatever rows the mask keeps (logit_scale is
\* not listed)
GradPaths(rank, g) ==
    ({Leaf(rank, "img"), Leaf(rank, "txt")}
       \cup {g.img_all.grad[j] : j \in 1 .. Len(g.img_all.grad)}
       \cup {g.txt_all.grad[j] : j \in 1 .. Len(g.txt_all.grad)})
    \ {NoGrad}

\* the values of a logits matrix and of a set of leaf tensors
Matrix == Seq(Seq(Int))
LeafSets == SUBSET [w : Int, t : STRING]

\* the returned ContrastiveLossOutput
ContrastiveLossOutput[logits_per_image, logits_per_text \in Matrix, labels \in Seq(Nat), loss_i, loss_t \in Int, grad \in LeafSets] ==
    [loss |-> AverageLoss(loss_i, loss_t),
     image_logits |-> logits_per_image,
     text_logits |-> logits_per_text,
     image_loss |-> loss_i,
     text_loss |-> loss_t,
     labels |-> labels,
     grad |-> grad]

\* the two cross entropies of the logits and the output built from them
LossOfLogits[logits_per_image, logits_per_text \in Matrix, labels \in Seq(Nat), grad \in LeafSets] ==
    ContrastiveLossOutput[logits_per_image, logits_per_text, labels,
                          CrossEntropy(logits_per_image, labels),
                          CrossEntropy(logits_per_text, labels), grad]

\* the mask is applied to the logits but not to the labels
LossLabelsUnmasked(img, txt, logit_scale, mask, rank, g) ==
    LET temperature == Exp(logit_scale)
        full_i == ScaledSimilarity(img, g.txt_all.rows, temperature)
        full_t == ScaledSimilarity(txt, g.img_all.rows, temperature)
        logits_per_image == IF mask.present THEN BoolIndex(full_i, mask.bits) ELSE full_i
        logits_per_text == IF mask.present THEN BoolIndex(full_t, mask.bits) ELSE full_t
        labels == g.labels
    IN  LossOfLogits[logits_per_image, logits_per_text, labels, GradPaths(rank, g)]

LossFromGathered(img, txt, logit_scale, mask, rank, g) ==
    LET temperature == Exp(logit_scale)
        full_i == ScaledSimilarity(img, g.txt_all.rows, temperature)
        full_t == ScaledSimilarity(txt, g.img_all.rows, temperature)
        logits_per_image == IF mask.present THEN BoolIndex(full_i, mask.bits) ELSE full_i
        logits_per_text == IF mask.present THEN BoolIndex(full_t, mask.bits) ELSE full_t
        labels == IF mask.present THEN BoolIndex(g.labels, mask.bits) ELSE g.labels
    IN  LossOfLogits[logits_per_image, logits_per_text, labels, GradPaths(rank, g)]

contrastive_loss_with_temperature(img, txt, logit_scale, mask, bp, env) ==
    LossFromGathered(img, txt, logit_scale, mask, env.rank,
                     GatherEmbeddingsAndLabels(img, txt, bp, env))

\* ------------------------------------------------------------------ state
VARIABLES
    initialized,  \* torch.distributed is available and initialized
    pc,           \* per worker: position inside contrastive_loss_with_temperature
    args,         \* per worker: arguments of the call in progress
    gimg,         \* per worker: img_embeddings_all_gpus
    gtxt,         \* per worker: text_embeddings_all_gpus
    gathered,     \* per worker: value returned by _gather_embeddings_and_labels
    slots,        \* collectives in flight, oldest first
    base,         \* number of collectives every worker has returned from
    joined,       \* per worker: number of collectives entered
    issued,       \* per worker: kinds of the collectives entered by this call
    out,          \* per worker: result of the last completed call
    steps,        \* per worker: training steps taken
    calls,        \* per worker: calls of the loss started
    heap,         \* parameter objects: handle -> logit_scale value
    ref,          \* per module: handle held in self.logit_scale
    ctor,         \* per module: how it was constructed
    result        \* the forward call that has just returned, if any

distVars == <<initialized, pc, args, gimg, gtxt, gathered, slots, base, joined,
              issued, out, steps, calls>>
modVars == <<heap, ref, ctor, result>>
vars == <<initialized, pc, args, gimg, gtxt, gathered, slots, base, joined,
          issued, out, steps, calls, heap, ref, ctor, result>>

\* ----------------------------------------------------------------- inputs
EmbDim == 2
EmbMod == 3

Emb(r, s) ==
    [i \in 1 .. LocalBatch |-> [d \in 1 .. EmbDim |-> (r + i * d + s) % EmbMod]]

NoMask == [present |-> FALSE, bits |-> <<>>]
SomeMask(bits) == [present |-> TRUE, bits |-> bits]

\* masks of a batch of n rows: all but the second row, and no row at all
DropSecond(n) == SomeMask([i \in 1 .. n |-> i # 2])
KeepNone(n) == SomeMask([i \in 1 .. n |-> FALSE])

Args(img, txt, logit_scale, mask, bp) ==
    [img |-> img, txt |-> txt, logit_scale |-> logit_scale, mask |-> mask, bp |-> bp]

\* the arguments a worker passes to one call
CallArgs(r) ==
    {Args(Emb(r, 0), Emb(r, 1), 0, NoMask, TRUE),
     Args(Emb(r, 1), Emb(r, 0), DEFAULT_LOGIT_SCALE_VALUE, DropSecond(LocalBatch), FALSE),
     Args(Emb(r, 0), Emb(r, 1), DEFAULT_LOGIT_SCALE_VALUE, KeepNone(LocalBatch), FALSE),
     Args(Emb(r, 1), Emb(r, 0), CLAMP_MAX, DropSecond(LocalBatch), TRUE)}

\* the embeddings worker r passes to one forward call of a module
ForwardInputs(r) ==
    {[img |-> Emb(r, 0), txt |-> Emb(r, 1), bp |-> TRUE],
     [img |-> Emb(r, 1), txt |-> Emb(r, 1), bp |-> FALSE]}

EmptyTensor == [rows |-> <<>>, grad |-> <<>>]
NoArgs == Args(<<>>, <<>>, 0, NoMask, TRUE)
NoGathered == [img_all |-> EmptyTensor, txt_all |-> EmptyTensor, labels |-> <<>>,
               collectives |-> <<>>]
NoRes == [loss |-> NaN, image_logits |-> <<>>, text_logits |-> <<>>,
          image_loss |-> NaN, text_loss |-> NaN, labels |-> <<>>, grad |-> {}]
NoOut == [done |-> FALSE, call |-> 0, args |-> NoArgs, gathered |-> NoGathered,
          res |-> NoRes]

Absent == [present |-> FALSE, kind |-> "none", val |-> <<>>]
\* a collective no worker of the group has entered yet
EmptySlot(group) == [dep |-> [k \in group |-> Absent], taken |-> {}]

\* the environment of worker r's call while every worker's arguments are
\* those of the matching call
Env(r) ==
    [initialized |-> initialized, rank |-> r, world_size |-> WorldSize,
     img_all |-> [k \in 1 .. WorldSize |-> args[k - 1].img],
     txt_all |-> [k \in 1 .. WorldSize |-> args[k - 1].txt]]

\* ---------------------------------------------------------- worker actions
InitDist ==
    /\ pc = [r \in Ranks |-> "idle"]
    /\ args = [r \in Ranks |-> NoArgs]
    /\ gimg = [r \in Ranks |-> <<>>]
    /\ gtxt = [r \in Ranks |-> <<>>]
    /\ gathered = [r \in Ranks |-> NoGathered]
    /\ slots = <<>>
    /\ base = 0
    /\ joined = [r \in Ranks |-> 0]
    /\ issued = [r \in Ranks |-> <<>>]
    /\ out = [r \in Ranks |-> NoOut]
    /\ steps = [r \in Ranks |-> 0]
    /\ calls = [r \in Ranks |-> 0]

\* the worker is between two training steps and has steps left
Idle(r) == pc[r] = "idle" /\ steps[r] < MaxSteps

\* entry of contrastive_loss_with_temperature with the arguments a, up to
\* the first collective
CallWith(r, a) ==
    /\ args' = [args EXCEPT ![r] = a]
    /\ IF ~initialized
       THEN /\ gathered' = [gathered EXCEPT ![r] =
                  GatherEmbeddingsAndLabels(a.img, a.txt, a.bp,
                      [initialized |-> FALSE, rank |-> r,
                       world_size |-> 1, img_all |-> <<>>, txt_all |-> <<>>])]
            /\ pc' = [pc EXCEPT ![r] = "compute"]
            /\ UNCHANGED <<gimg, gtxt>>
       ELSE /\ gathered' = [gathered EXCEPT ![r] = NoGathered]
            /\ pc' = [pc EXCEPT ![r] = "gather_img"]
            /\ gtxt' = [gtxt EXCEPT ![r] =
                  IF a.bp THEN <<>> ELSE ZerosList(a.txt, WorldSize)]
            /\ gimg' = [gimg EXCEPT ![r] =
                  IF a.bp THEN <<>> ELSE ZerosList(a.img, WorldSize)]
    /\ steps' = [steps EXCEPT ![r] = @ + 1]
    /\ calls' = [calls EXCEPT ![r] = @ + 1]
    /\ issued' = [issued EXCEPT ![r] = <<>>]
    /\ out' = [out EXCEPT ![r] = NoOut]
    /\ UNCHANGED <<initialized, slots, base, joined, modVars>>

Call(r) ==
    /\ Idle(r)
    /\ \E a \in CallArgs(r) : CallWith(r, a)

\* a training step in which the worker does not call the loss
Skip(r) ==
    /\ Idle(r)
    /\ steps' = [steps EXCEPT ![r] = @ + 1]
    /\ out' = [out EXCEPT ![r] = NoOut]
    /\ UNCHANGED <<initialized, pc, args, gimg, gtxt, gathered, slots, base,
                   joined, issued, calls, modVars>>

\* the gathers follow the order in which the zero lists are created
NextCollectiveTextFirst(position, bp) ==
    IF bp THEN (IF position = "gather_img" THEN "img" ELSE "txt")
    ELSE (IF position = "gather_img" THEN "txt" ELSE "img")

\* the kind of collective a worker at this position issues next
NextCollective(position, bp) ==
    IF position = "gather_img" THEN "img" ELSE "txt"

\* the worker enters its next all_gather and blocks
AllGatherEnter(r) ==
    /\ pc[r] \in {"gather_img", "gather_txt"}
    /\ LET kind == NextCollective(pc[r], args[r].bp)
           idx == joined[r] + 1 - base
           grown == IF idx > Len(slots) THEN Append(slots, EmptySlot(Ranks)) ELSE slots
           val == IF kind = "img" THEN args[r].img ELSE args[r].txt
       IN  /\ slots' = [grown EXCEPT ![idx].dep[r] =
                          [present |-> TRUE, kind |-> kind, val |-> val]]
           /\ issued' = [issued EXCEPT ![r] = Append(@, kind)]
           /\ pc' = [pc EXCEPT ![r] = IF pc[r] = "gather_img" THEN "wait_img" ELSE "wait_txt"]
    /\ joined' = [joined EXCEPT ![r] = @ + 1]
    /\ UNCHANGED <<initialized, args, gimg, gtxt, gathered, base, out, steps,
                   calls, modVars>>

SlotFull(slot) == \A k \in Ranks : slot.dep[k].present

\* every worker has entered the collective: it returns on worker r
AllGatherReturn(r) ==
    /\ pc[r] \in {"wait_img", "wait_txt"}
    /\ LET idx == joined[r] - base
           slot == slots[idx]
           delivered == [k \in 1 .. WorldSize |-> slot.dep[k - 1].val]
           kind == IF pc[r] = "wait_img" THEN "img" ELSE "txt"
           list == IF args[r].bp
                   THEN AllGatherWithBackprop(delivered, kind)
                   ELSE AllGatherNoBackprop(IF kind = "img" THEN gimg[r] ELSE gtxt[r],
                                            delivered)
           taken == slot.taken \cup {r}
       IN  /\ SlotFull(slot)
           /\ IF taken = Ranks
              THEN /\ slots' = Tail(slots)
                   /\ base' = base + 1
              ELSE /\ slots' = [slots EXCEPT ![idx].taken = taken]
                   /\ base' = base
           /\ IF kind = "img"
              THEN /\ gimg' = [gimg EXCEPT ![r] = list]
                   /\ pc' = [pc EXCEPT ![r] = "gather_txt"]
                   /\ UNCHANGED <<gtxt, gathered>>
              ELSE /\ gtxt' = [gtxt EXCEPT ![r] = list]
                   /\ gathered' = [gathered EXCEPT ![r] =
                         [img_all |-> Cat(gimg[r]),
                          txt_all |-> Cat(list),
                          labels |-> DistLabels(Len(args[r].img), r),
                          collectives |-> issued[r]]]
                   /\ pc' = [pc EXCEPT ![r] = "compute"]
                   /\ UNCHANGED gimg
    /\ UNCHANGED <<initialized, args, joined, issued, out, steps, calls, modVars>>

\* logits, mask, cross entropy and the returned ContrastiveLossOutput
Compute(r) ==
    /\ pc[r] = "compute"
    /\ out' = [out EXCEPT ![r] =
                 [done |-> TRUE, call |-> calls[r], args |-> args[r],
                  gathered |-> gathered[r],
                  res |-> LossFromGathered(args[r].img, args[r].txt,
                             args[r].logit_scale, args[r].mask, r, gathered[r])]]
    /\ pc' = [pc EXCEPT ![r] = "idle"]
    /\ UNCHANGED <<initialized, args, gimg, gtxt, gathered, slots, base, joined,
                   issued, steps, calls, modVars>>

\* --------------------------------------------------------------- the module
\* two module instances
Modules == {1, 2}
LogitScales == {-50000, DEFAULT_LOGIT_SCALE_VALUE, 100000}

\* the handle of the module-level parameter DEFAULT_LOGIT_SCALE
DEFAULT_LOGIT_SCALE == 1

ParamArg(h) == [isParam |-> TRUE, h |-> h, v |-> 0]
FloatArg(v) == [isParam |-> FALSE, h |-> 0, v |-> v]

\* ContrastiveLossWithTemperature.__init__: the new heap and self.logit_scale
ModuleInit(hp, logit_scale) ==
    IF logit_scale.isParam
    THEN [heap |-> hp, ref |-> logit_scale.h]
    ELSE [heap |-> Append(hp, logit_scale.v), ref |-> Len(hp) + 1]

\* the lower bound is forgotten
ClampNoLower(v) == IF v > CLAMP_MAX THEN CLAMP_MAX ELSE v

\* Tensor.clamp_(0, 4.6052)
Clamp(v) == IF v < CLAMP_MIN THEN CLAMP_MIN ELSE IF v > CLAMP_MAX THEN CLAMP_MAX ELSE v

SingleEnv == [initialized |-> FALSE, rank |-> 0, world_size |-> 1,
              img_all |-> <<>>, txt_all |-> <<>>]

\* the clamped value is stored in a new parameter object
ModuleForwardReplace(hp, h, img, txt, bp) ==
    [heap |-> Append(hp, Clamp(hp[h])),
     ref |-> Len(hp) + 1,
     loss |-> contrastive_loss_with_temperature(img, txt, Clamp(hp[h]), NoMask,
                                                bp, SingleEnv).loss]

\* ContrastiveLossWithTemperature.forward: the new heap, self.logit_scale
\* and the returned loss
ModuleForward(hp, h, img, txt, bp) ==
    LET clamped == [hp EXCEPT ![h] = Clamp(@)]
    IN  [heap |-> clamped,
         ref |-> h,
         loss |-> contrastive_loss_with_temperature(img, txt, clamped[h], NoMask,
                                                    bp, SingleEnv).loss]

NoResult == [m |-> 0, h |-> 0, img |-> <<>>, txt |-> <<>>, bp |-> TRUE, loss |-> NaN]

InitMod ==
    /\ heap = <<DEFAULT_LOGIT_SCALE_VALUE>>
    /\ ref = [m \in Modules |-> 0]
    /\ ctor = [m \in Modules |-> "none"]
    /\ result = NoResult

\* the caller creates an nn.Parameter of its own
NewParameter ==
    /\ Len(heap) < MaxHandles
    /\ \E v \in LogitScales : heap' = Append(heap, v)
    /\ result' = NoResult
    /\ UNCHANGED <<ref, ctor, distVars>>

Construct(m) ==
    /\ ctor[m] = "none"
    /\ \E how \in {"default", "float", "handle"} :
         \E v \in LogitScales, h \in 1 .. Len(heap) :
           LET arg == IF how = "default" THEN ParamArg(DEFAULT_LOGIT_SCALE)
                      ELSE IF how = "float" THEN FloatArg(v) ELSE ParamArg(h)
               made == ModuleInit(heap, arg)
           IN  /\ Len(made.heap) <= MaxHandles
               /\ heap' = made.heap
               /\ ref' = [ref EXCEPT ![m] = made.ref]
               /\ ctor' = [ctor EXCEPT ![m] = how]
    /\ result' = NoResult
    /\ UNCHANGED distVars

Forward(m) ==
    /\ ctor[m] # "none"
    /\ \E in \in ForwardInputs(0) :
         LET f == ModuleForward(heap, ref[m], in.img, in.txt, in.bp)
         IN  /\ heap' = f.heap
             /\ ref' = [ref EXCEPT ![m] = f.ref]
             /\ result' = [m |-> m, h |-> f.ref, img |-> in.img, txt |-> in.txt,
                           bp |-> in.bp, loss |-> f.loss]
    /\ UNCHANGED <<ctor, distVars>>

\* an external optimizer (or any other holder of the handle) writes the parameter
OptimizerStep(h) ==
    /\ h \in 1 .. Len(heap)
    /\ \E v \in LogitScales : heap' = [heap EXCEPT ![h] = v]
    /\ result' = NoResult
    /\ UNCHANGED <<ref, ctor, distVars>>

\* --------------------------------------------------------- specifications
Init ==
    /\ initialized \in BOOLEAN
    /\ InitDist
    /\ InitMod

Next ==
    \/ \E r \in Ranks : Call(r)
    \/ \E r \in Ranks : Skip(r)
    \/ \E r \in Ranks : AllGatherEnter(r)
    \/ \E r \in Ranks : AllGatherReturn(r)
    \/ \E r \in Ranks : Compute(r)

Spec == Init /\ [][Next]_vars

\* the workers' calls with fewer argument values, for the liveness check
LiveArgs(r) ==
    {Args(Emb(r, 0), Emb(r, 1), 0, NoMask, TRUE),
     Args(Emb(r, 1), Emb(r, 0), DEFAULT_LOGIT_SCALE_VALUE, DropSecond(LocalBatch), FALSE)}
LiveCall(r) ==
    /\ Idle(r)
    /\ \E a \in LiveArgs(r) : CallWith(r, a)

LiveWorkerNext(r) ==
    LiveCall(r) \/ Skip(r) \/ AllGatherEnter(r) \/ AllGatherReturn(r) \/ Compute(r)

LiveNext ==
    \/ \E r \in Ranks : LiveCall(r)
    \/ \E r \in Ranks : Skip(r)
    \/ \E r \in Ranks : AllGatherEnter(r)
    \/ \E r \in Ranks : AllGatherReturn(r)
    \/ \E r \in Ranks : Compute(r)

\* every worker process keeps running
LiveSpec ==
    Init /\ [][LiveNext]_vars /\ \A r \in Ranks : WF_vars(LiveWorkerNext(r))

ModInit ==
    /\ initialized = FALSE
    /\ InitDist
    /\ InitMod

ModNext ==
    \/ NewParameter
    \/ \E m \in Modules : Construct(m)
    \/ \E m \in Modules : Forward(m)
    \/ \E h \in 1 .. MaxHandles : OptimizerStep(h)

ModSpec == ModInit /\ [][ModNext]_vars

\* ------------------------------------------------------------- properties
GatherReturned(r) == pc[r] = "compute"

\* worker k's arguments are those of the call that matches call c
SameCall(k, c) == calls[k] = c

\* C1: in distributed mode the gather returns W*B rows, row k*B+i being
\* worker k's local row i, and labels [r*B, ..., r*B+B-1], so the global row
\* at labels[i] is the worker's own sample i, whatever backprop_in_gather is
C1_GatherRankOrder ==
    initialized =>
      \A r \in Ranks : GatherReturned(r) =>
        LET g == gathered[r]
            B == Len(args[r].img)
            c == calls[r]
        IN  /\ Len(g.img_all.rows) = WorldSize * B
            /\ Len(g.txt_all.rows) = WorldSize * B
            /\ \A k \in Ranks :
                 /\ calls[k] >= c
                 /\ SameCall(k, c) =>
                      \A i \in 1 .. B :
                        /\ g.img_all.rows[k * B + i] = args[k].img[i]
                        /\ g.txt_all.rows[k * B + i] = args[k].txt[i]
            /\ g.labels = [i \in 1 .. B |-> r * B + i - 1]
            /\ \A i \in 1 .. B :
                 /\ g.img_all.rows[g.labels[i] + 1] = args[r].img[i]
                 /\ g.txt_all.rows[g.labels[i] + 1] = args[r].txt[i]

C1_Witness ==
    /\ initialized
    /\ GatherReturned(WorldSize - 1)
    /\ ~args[WorldSize - 1].bp
    /\ \A k \in Ranks : SameCall(k, calls[WorldSize - 1])
    /\ args[0].img # args[WorldSize - 1].img

\* C2: without a distributed environment the gather returns the local
\* embeddings unchanged and labels [0, ..., N-1], and runs no collective
C2_SingleWorkerIdentity ==
    ~initialized =>
      /\ slots = <<>>
      /\ \A r \in Ranks :
           /\ joined[r] = 0
           /\ issued[r] = <<>>
           /\ GatherReturned(r) =>
                LET g == gathered[r]
                    N == Len(args[r].img)
                IN  /\ g.img_all = LocalTensor(args[r].img, r, "img")
                    /\ g.txt_all = LocalTensor(args[r].txt, r, "txt")
                    /\ g.labels = [i \in 1 .. N |-> i - 1]
                    /\ g.collectives = <<>>

C2_Witness ==
    /\ ~initialized
    /\ \E r \in Ranks : GatherReturned(r) /\ ~args[r].bp /\ args[r].img # args[r].txt

\* the indices a boolean mask keeps, in ascending order
KeptIndex(bits, j) ==
    CHOOSE i \in 1 .. Len(bits) :
        bits[i] /\ Cardinality({k \in 1 .. i : bits[k]}) = j

KeptCount(bits) == Cardinality({k \in 1 .. Len(bits) : bits[k]})

\* C4: with a mask, image_logits, text_logits and the labels have one entry
\* per True entry, in the original order, each kept row with the label of
\* its original index, and the global number of columns; without a mask no
\* row is dropped
C4_MaskKeepsRows ==
    \A r \in Ranks : out[r].done =>
      LET a == out[r].args
          res == out[r].res
          B == Len(a.img)
          cols == IF initialized THEN WorldSize * B ELSE B
          first == IF initialized THEN r * B ELSE 0
          full == LossFromGathered(a.img, a.txt, a.logit_scale, NoMask, r,
                                   out[r].gathered)
          n == IF a.mask.present THEN KeptCount(a.mask.bits) ELSE B
          orig(j) == IF a.mask.present THEN KeptIndex(a.mask.bits, j) ELSE j
      IN  /\ Len(res.image_logits) = n
          /\ Len(res.text_logits) = n
          /\ Len(res.labels) = n
          /\ Len(full.image_logits) = B
          /\ \A j \in 1 .. n :
               /\ res.image_logits[j] = full.image_logits[orig(j)]
               /\ res.text_logits[j] = full.text_logits[orig(j)]
               /\ res.labels[j] = first + orig(j) - 1
               /\ Len(res.image_logits[j]) = cols
               /\ Len(res.text_logits[j]) = cols

C4_Witness ==
    /\ initialized
    /\ out[WorldSize - 1].done
    /\ out[WorldSize - 1].args.mask = DropSecond(LocalBatch)

ValuesOf(res) ==
    <<res.loss, res.image_logits, res.text_logits, res.image_loss, res.text_loss,
      res.labels>>

\* C5: in distributed mode the forward results (gathered values, labels,
\* logits and losses) are the same for both values of backprop_in_gather
C5_ForwardIndependentOfBackprop ==
    initialized =>
      \A r \in Ranks : (out[r].done /\ \A k \in Ranks : SameCall(k, out[r].call)) =>
        LET a == out[r].args
            env == Env(r)
            g == GatherEmbeddingsAndLabels(a.img, a.txt, ~a.bp, env)
            alt == contrastive_loss_with_temperature(a.img, a.txt, a.logit_scale,
                                                     a.mask, ~a.bp, env)
        IN  /\ out[r].gathered.img_all.rows = g.img_all.rows
            /\ out[r].gathered.txt_all.rows = g.txt_all.rows
            /\ out[r].gathered.labels = g.labels
            /\ ValuesOf(out[r].res) = ValuesOf(alt)

C5_Witness ==
    /\ initialized
    /\ \E r \in Ranks :
         /\ out[r].done
         /\ \A k \in Ranks : SameCall(k, out[r].call)
         /\ ~out[r].args.bp
         /\ out[r].res.loss # NaN
         /\ out[r].res.image_logits # out[r].res.text_logits

\* C6: with backprop_in_gather=False only the local worker's piece of the
\* gathered arrays keeps a gradient path (to the local embeddings) and the
\* loss reaches no other worker's embeddings; with True every piece keeps a
\* gradient path to the worker that contributed it
C6_GradientScope ==
    initialized =>
      \A r \in Ranks :
        /\ GatherReturned(r) =>
             LET g == gathered[r]
                 B == Len(args[r].img)
             IN  \A k \in Ranks, i \in 1 .. B :
                   IF args[r].bp \/ k = r
                   THEN /\ g.img_all.grad[k * B + i] = Leaf(k, "img")
                        /\ g.txt_all.grad[k * B + i] = Leaf(k, "txt")
                   ELSE /\ g.img_all.grad[k * B + i] = NoGrad
                        /\ g.txt_all.grad[k * B + i] = NoGrad
        /\ (out[r].done /\ ~out[r].args.bp) =>
             \A leaf \in out[r].res.grad : leaf.w = r

SwapEnv(env) == [env EXCEPT !.img_all = env.txt_all, !.txt_all = env.img_all]

\* C7: loss = (image_loss + text_loss) / 2, and exchanging the image and
\* text embeddings leaves the loss unchanged while exchanging image_logits
\* with text_logits and image_loss with text_loss
C7_AverageAndSymmetry ==
    \A r \in Ranks : out[r].done =>
      LET a == out[r].args
          res == out[r].res
          sw == contrastive_loss_with_temperature(a.txt, a.img, a.logit_scale,
                    a.mask, a.bp, SwapEnv(Env(r)))
      IN  /\ IF res.image_loss = NaN \/ res.text_loss = NaN
             THEN res.loss = NaN
             ELSE res.loss = (res.image_loss + res.text_loss) \div 2
          /\ (initialized => \A k \in Ranks : SameCall(k, out[r].call)) =>
               /\ sw.loss = res.loss
               /\ sw.image_logits = res.text_logits
               /\ sw.text_logits = res.image_logits
               /\ sw.image_loss = res.text_loss
               /\ sw.text_loss = res.image_loss

C7_Witness ==
    \E r \in Ranks :
      /\ out[r].done
      /\ initialized
      /\ \A k \in Ranks : SameCall(k, out[r].call)
      /\ out[r].res.loss # NaN
      /\ out[r].res.image_loss # out[r].res.text_loss
      /\ out[r].res.image_logits # out[r].res.text_logits

\* ---- the module
InRange(v) == CLAMP_MIN <= v /\ v <= CLAMP_MAX

\* C3: right after every forward call the stored logit_scale lies in
\* [0, ln(100)] and the returned loss is the one of the clamped value
C3_ClampedAfterForward ==
    result.m # 0 =>
      /\ result.h = ref[result.m]
      /\ InRange(heap[result.h])
      /\ result.loss =
           contrastive_loss_with_temperature(result.img, result.txt,
               heap[result.h], NoMask, result.bp, SingleEnv).loss

C3_Witness ==
    /\ result.m # 0
    /\ ctor[result.m] = "float"
    /\ heap[result.h] = CLAMP_MAX
    /\ result.loss # NaN

\* C8: two modules constructed with the default each own their parameter:
\* a forward call or an optimizer update on one leaves the other unchanged
C8_DefaultModulesIndependent ==
    [][\A m1 \in Modules, m2 \in Modules :
         (/\ m1 # m2
          /\ ctor[m1] = "default"
          /\ ctor[m2] = "default"
          /\ (result'.m = m1 \/ heap'[ref[m1]] # heap[ref[m1]]))
         => heap'[ref[m2]] = heap[ref[m2]]]_vars

\* C9: a module constructed with a parameter handle keeps that handle;
\* forward clamps the value in place, so every holder of the handle sees the
\* clamped value, the value an external holder wrote is the one forward
\* clamps and uses, and a value inside the range is left as it is
C9_HandleKeptClampedInPlace ==
    [][\A m \in Modules : ctor[m] = "handle" =>
         /\ ref'[m] = ref[m]
         /\ result'.m = m =>
              LET h == ref[m]
                  clamped == Clamp(heap[h])
              IN  /\ result'.h = h
                  /\ Len(heap') = Len(heap)
                  /\ heap'[h] = clamped
                  /\ InRange(heap[h]) => heap'[h] = heap[h]
                  /\ \A m2 \in Modules : ref[m2] = h => heap'[ref'[m2]] = clamped
                  /\ \A h2 \in 1 .. Len(heap) : h2 # h => heap'[h2] = heap[h2]
                  /\ result'.loss =
                       contrastive_loss_with_temperature(result'.img, result'.txt,
                           clamped, NoMask, result'.bp, SingleEnv).loss]_vars

C9_Witness ==
    /\ result.m # 0
    /\ ctor[result.m] = "handle"
    /\ result.h # DEFAULT_LOGIT_SCALE
    /\ heap[result.h] = CLAMP_MIN
    /\ \E m2 \in Modules : m2 # result.m /\ ref[m2] = result.h

\* ---- the collectives
InCall(r) == pc[r] # "idle"
Waiting(r) == pc[r] \in {"wait_img", "wait_txt"}
Finished(k) == pc[k] = "idle" /\ steps[k] = MaxSteps

TwoCollectivesPerCall ==
    initialized =>
      /\ \A r \in Ranks :
           /\ pc[r] \in {"idle", "compute"} => joined[r] = 2 * calls[r]
           /\ pc[r] = "compute" => issued[r] = <<"img", "txt">>
           /\ pc[r] \in {"wait_img", "gather_txt"} => issued[r] = <<"img">>
           /\ pc[r] = "gather_img" => issued[r] = <<>>
      /\ \A n \in 1 .. Len(slots) : \A k \in Ranks :
           slots[n].dep[k].present =>
             slots[n].dep[k].kind = (IF (base + n) % 2 = 1 THEN "img" ELSE "txt")

StuckStays ==
    \A r \in Ranks :
      (Waiting(r) /\ \E k \in Ranks : Finished(k) /\ joined[k] < joined[r])
        => pc'[r] = pc[r]

\* C10: each call issues exactly two collectives, image first and text
\* second, whatever backprop_in_gather, the mask and the embeddings are;
\* every call completes unless some worker ends with fewer calls, and a
\* worker waiting for a worker that has ended with fewer collectives stays
\* blocked
C10_CollectivesInLockstep ==
    /\ []TwoCollectivesPerCall
    /\ [][StuckStays]_vars
    /\ \A r \in Ranks :
         [](InCall(r) =>
              <>(~InCall(r) \/ \E k \in Ranks : Finished(k) /\ calls[k] < calls[r]))

C10_Witness ==
    /\ initialized
    /\ \A r \in Ranks : out[r].done /\ Finished(r)
    /\ out[0].args.bp # out[WorldSize - 1].args.bp
    /\ out[0].args.mask # out[WorldSize - 1].args.mask
    /\ out[0].args.img # Emb(0, 0)

\* a worker is blocked at a collective that a finished worker never entered
C10_Blocked ==
    \E r \in Ranks :
      Waiting(r) /\ \E k \in Ranks : Finished(k) /\ joined[k] < joined[r]

====
